---- MODULE Spec2Model ----
(***************************************************************************)
(* A model of yt_summarizer.py: the YtSummarizer class (identifier         *)
(* extraction, the memoized transcript fetch, the chat summary).           *)
(*                                                                         *)
(* Strings are sequences of tokens; a token stands for a fixed run of      *)
(* characters ("youtube.com", "/", "v", ...) and the inputs are built so   *)
(* that the delimiters the code looks for are tokens of their own.         *)
(* A Python value is None or Str(s).                                       *)
(***************************************************************************)
EXTENDS Naturals, Sequences, FiniteSets, TLC

VARIABLES
    inst,        \* the constructed YtSummarizer objects: <<[url, model], ...>>
    cache,       \* lru_cache of get_video_transcript: <<[key, val], ...>>, most recent last
    last,        \* what the most recent operation did (its result and its external effects)
    svcCalls,    \* history: per instance, the YouTubeTranscriptApi.get_transcript calls made for it
    firstRet,    \* history: per instance, what its first get_video_transcript returned
    fetchOrder,  \* history: the instances fetched so far, least recently fetched first
    evicted      \* history: the instances whose cache entry was ever evicted

vars == <<inst, cache, last, svcCalls, firstRet, fetchOrder, evicted>>

(***************************************************************************)
(* Python values and strings                                               *)
(***************************************************************************)
None == [none |-> TRUE]

Str(s) == [str |-> s]

IsStr(v) == "str" \in DOMAIN v

\* Python truthiness of an Optional[str]: None and '' are falsy.
Truthy(v) == IsStr(v) /\ v.str # <<>>

\* s.find(t): the first index of token t in s, 0 when absent.
Find(s, t) ==
    IF \E i \in 1..Len(s) : s[i] = t
    THEN CHOOSE i \in 1..Len(s) : s[i] = t /\ \A j \in 1..(i - 1) : s[j] # t
    ELSE 0

\* needle in hay
Contains(hay, needle) ==
    \E i \in 1..(Len(hay) + 1) :
        /\ i + Len(needle) - 1 <= Len(hay)
        /\ SubSeq(hay, i, i + Len(needle) - 1) = needle

\* s[i:] with a 1-based i
From(s, i) == SubSeq(s, i, Len(s))

\* The first index of any of the tokens in ds, Len(s) + 1 when none occurs.
FindAny(s, ds) ==
    IF \E i \in 1..Len(s) : s[i] \in ds
    THEN CHOOSE i \in 1..Len(s) : s[i] \in ds /\ \A j \in 1..(i - 1) : s[j] \notin ds
    ELSE Len(s) + 1

RECURSIVE Split(_, _)
\* s.split(sep): the fields between the separators, empty ones included.
Split(s, sep) ==
    LET i == Find(s, sep) IN
    IF i = 0 THEN <<s>>
    ELSE <<SubSeq(s, 1, i - 1)>> \o Split(From(s, i + 1), sep)

RECURSIVE Join(_, _)
\* sep.join(parts)
Join(parts, sep) ==
    IF parts = <<>> THEN <<>>
    ELSE IF Len(parts) = 1 THEN Head(parts)
    ELSE Head(parts) \o <<sep>> \o Join(Tail(parts), sep)

(***************************************************************************)
(* urllib.parse as the code uses it                                        *)
(***************************************************************************)
\* Tokens made only of scheme characters (letters, digits, "+", "-", ".").
SchemeTokens == {"https", "www.", "youtube.com", "youtu.be", ".", "example.com",
                 "watch", "v", "list", "ABC", "XYZ", "+"}

\* Tokens whose first character is an ASCII letter.
AlphaTokens == SchemeTokens \ {"+", "."}

\* urlsplit, first step: the scheme is what precedes the first ":" (at index c)
\* when that is a letter followed by scheme characters only.
SplitScheme(url, c) ==
    IF c > 1 /\ url[1] \in AlphaTokens /\ \A j \in 1..(c - 1) : url[j] \in SchemeTokens
    THEN [scheme |-> SubSeq(url, 1, c - 1), rest |-> From(url, c + 1)]
    ELSE [scheme |-> <<>>, rest |-> url]

\* urlsplit, second step: after "//" the netloc runs to the first "/", "?" or "#".
SplitNetloc(s) ==
    IF s.rest # <<>> /\ Head(s.rest) = "//"
    THEN [scheme |-> s.scheme,
          netloc |-> SubSeq(s.rest, 2, FindAny(Tail(s.rest), {"/", "?", "#"})),
          rest |-> From(s.rest, FindAny(Tail(s.rest), {"/", "?", "#"}) + 1)]
    ELSE [scheme |-> s.scheme, netloc |-> <<>>, rest |-> s.rest]

\* urlsplit, third step: the fragment follows the first "#" (at index h).
SplitFragment(s, h) ==
    [scheme |-> s.scheme, netloc |-> s.netloc,
     fragment |-> IF h = 0 THEN <<>> ELSE From(s.rest, h + 1),
     rest |-> IF h = 0 THEN s.rest ELSE SubSeq(s.rest, 1, h - 1)]

\* urlsplit, last step: the query follows the first "?" (at index q); an
\* unbalanced bracket in the netloc raises ValueError.
SplitQuery(s, q) ==
    IF (Find(s.netloc, "[") # 0) # (Find(s.netloc, "]") # 0)
    THEN [raised |-> TRUE, msg |-> "Invalid IPv6 URL"]
    ELSE [raised |-> FALSE, scheme |-> s.scheme, netloc |-> s.netloc,
          path |-> IF q = 0 THEN s.rest ELSE SubSeq(s.rest, 1, q - 1),
          query |-> IF q = 0 THEN <<>> ELSE From(s.rest, q + 1),
          fragment |-> s.fragment]

\* urlparse(url): scheme, netloc, path, query, fragment
urlparse(url) ==
    LET Fragment(s) == SplitFragment(s, Find(s.rest, "#"))
        Query(s) == SplitQuery(s, Find(s.rest, "?"))
    IN Query(Fragment(SplitNetloc(SplitScheme(url, Find(url, ":")))))

\* One token of a query string decoded: "+" is a space, %76 is "v".
UnquoteToken(t) == IF t = "+" THEN " " ELSE IF t = "%76" THEN "v" ELSE t

\* unquote(s.replace('+', ' '))
Unquote(s) == [i \in 1..Len(s) |-> UnquoteToken(s[i])]

\* One field of a query string ("=" at index k, 0 when absent) as parse_qsl
\* reads it: a field with no "=" or with a blank value is skipped
\* (keep_blank_values is off); the name and the value are decoded.
ParseField(f, k) ==
    IF f = <<>> \/ k = 0 \/ k = Len(f) THEN <<>>
    ELSE <<[name |-> Unquote(SubSeq(f, 1, k - 1)), value |-> Unquote(From(f, k + 1))]>>

RECURSIVE ParseFields(_)
\* parse_qsl over the "&"-separated fields
ParseFields(fields) ==
    IF fields = <<>> THEN <<>>
    ELSE ParseField(Head(fields), Find(Head(fields), "=")) \o ParseFields(Tail(fields))

\* parse_qs(qs) as the ordered list of its (name, value) pairs.
parse_qs(qs) == IF qs = <<>> THEN <<>> ELSE ParseFields(Split(qs, "&"))

\* name in parse_qs(qs)
HasKey(pairs, name) == \E i \in 1..Len(pairs) : pairs[i].name = name

RECURSIVE Values(_, _)
\* parse_qs(qs)[name]: the values of name, in order
Values(pairs, name) ==
    IF pairs = <<>> THEN <<>>
    ELSE (IF Head(pairs).name = name THEN <<Head(pairs).value>> ELSE <<>>)
         \o Values(Tail(pairs), name)

(***************************************************************************)
(* YtSummarizer                                                            *)
(***************************************************************************)
DefaultModel == <<"llama3.2">>

\* raise ValueError(msg) / return val, inside a try block
Raise(msg) == [raised |-> TRUE, msg |-> msg]

Return(val) == [raised |-> FALSE, val |-> val]

\* The model argument of the constructor: left out, or given.
NoModel == [given |-> FALSE]

Model(m) == [given |-> TRUE, val |-> m]

\* __init__: an empty url raises ValueError, otherwise the object is built
\* (model defaults to 'llama3.2').
YtSummarizer(url, model) ==
    IF url = <<>> THEN Raise("URL cannot be empty")
    ELSE Return([url |-> url, model |-> IF model.given THEN model.val ELSE DefaultModel])

\* A variant of ExtractId that takes the last value of v, not the first.
ExtractId_LastV(parsed_url, qs) ==
    IF ~Contains(parsed_url.netloc, <<"youtube.com">>)
    THEN Raise("Not a valid YouTube URL")
    ELSE IF HasKey(qs, <<"v">>)
    THEN Return(Str(Values(qs, <<"v">>)[Len(Values(qs, <<"v">>))]))
    ELSE IF Contains(parsed_url.netloc, <<"youtu.be">>)
    THEN Return(Str(IF parsed_url.path = <<>> THEN <<>> ELSE Tail(parsed_url.path)))
    ELSE Raise("Could not extract video ID")

\* A variant of ExtractId that does not look at the host before the query.
ExtractId_NoHostCheck(parsed_url, qs) ==
    IF HasKey(qs, <<"v">>)
    THEN Return(Str(Values(qs, <<"v">>)[1]))
    ELSE IF Contains(parsed_url.netloc, <<"youtu.be">>)
    THEN Return(Str(IF parsed_url.path = <<>> THEN <<>> ELSE Tail(parsed_url.path)))
    ELSE Raise("Could not extract video ID")

\* The try block of get_video_id after urlparse (lines 29-37): qs is
\* parse_qs(parsed_url.query).
ExtractId(parsed_url, qs) ==
    IF ~Contains(parsed_url.netloc, <<"youtube.com">>)
    THEN Raise("Not a valid YouTube URL")
    ELSE IF HasKey(qs, <<"v">>)
    THEN Return(Str(Values(qs, <<"v">>)[1]))
    ELSE IF Contains(parsed_url.netloc, <<"youtu.be">>)
    THEN Return(Str(IF parsed_url.path = <<>> THEN <<>> ELSE Tail(parsed_url.path)))
    ELSE Raise("Could not extract video ID")

\* The try block of get_video_id (lines 28-37).
get_video_id_try(self) ==
    LET Parsed(parsed_url) ==
            IF parsed_url.raised THEN Raise(parsed_url.msg)
            ELSE ExtractId(parsed_url, parse_qs(parsed_url.query))
    IN Parsed(urlparse(self.url))

\* A variant of the except clause that prints the exception and raises it again.
get_video_id_reraise(r) ==
    IF r.raised
    THEN [raised |-> TRUE, ret |-> None,
          out |-> << <<"Error extracting video ID: ", r.msg>> >>]
    ELSE [raised |-> FALSE, ret |-> r.val, out |-> <<>>]

\* The except clause of get_video_id: the exception is printed and None returned.
get_video_id_except(r) ==
    IF r.raised
    THEN [raised |-> FALSE, ret |-> None,
          out |-> << <<"Error extracting video ID: ", r.msg>> >>]
    ELSE [raised |-> FALSE, ret |-> r.val, out |-> <<>>]

\* get_video_id
get_video_id(self) == get_video_id_except(get_video_id_try(self))

\* The behaviours of YouTubeTranscriptApi.get_transcript: it raises, or returns
\* a list of segments (the last one holds a segment with no 'text' key).
SvcOutcomes ==
    { [kind |-> "raise", msg |-> "TranscriptsDisabled"],
      [kind |-> "return", segs |-> <<>>],
      [kind |-> "return", segs |-> <<[text |-> <<"Hello">>], [text |-> <<"world">>]>>],
      [kind |-> "return", segs |-> <<[text |-> <<"Bye">>]>>],
      [kind |-> "return", segs |-> <<[start |-> 0]>>] }

\* The behaviours of ollama.chat: it raises, or returns a response (the last
\* one has no message attribute).
ChatOutcomes ==
    { [kind |-> "raise", msg |-> "ConnectionError"],
      [kind |-> "return", resp |-> [message |-> [content |-> Str(<<"Summary">>)]]],
      [kind |-> "return", resp |-> [message |-> [content |-> Str(<<>>)]]],
      [kind |-> "return", resp |-> [done |-> TRUE]] }

\* No external call was made.
NoCall == [kind |-> "none"]

RECURSIVE Texts(_)
\* [segment['text'] for segment in transcript_list]
Texts(segs) ==
    IF segs = <<>> THEN <<>> ELSE <<Head(segs).text>> \o Texts(Tail(segs))

\* A variant of FetchTranscript with no try block around the service call.
FetchTranscript_NoTry(id, svc) ==
    IF id.raised THEN [raised |-> TRUE, ret |-> None, out |-> id.out, svc |-> <<>>]
    ELSE IF ~Truthy(id.ret)
    THEN [raised |-> FALSE, ret |-> None, out |-> id.out, svc |-> <<>>]
    ELSE IF svc.kind = "raise" \/ \E k \in 1..Len(svc.segs) : "text" \notin DOMAIN svc.segs[k]
    THEN [raised |-> TRUE, ret |-> None, svc |-> <<id.ret.str>>, out |-> id.out]
    ELSE [raised |-> FALSE, ret |-> Str(Join(Texts(svc.segs), " ")),
          svc |-> <<id.ret.str>>, out |-> id.out]

\* Lines 46-54 of get_video_transcript: id is what get_video_id did, svc how
\* the transcript service behaves if it is called.
FetchTranscript(id, svc) ==
    IF id.raised THEN [raised |-> TRUE, ret |-> None, out |-> id.out, svc |-> <<>>]
    ELSE IF ~Truthy(id.ret)
    THEN [raised |-> FALSE, ret |-> None, out |-> id.out, svc |-> <<>>]
    ELSE IF svc.kind = "raise"
    THEN [raised |-> FALSE, ret |-> None, svc |-> <<id.ret.str>>,
          out |-> id.out \o << <<"Error getting transcript: ", svc.msg>> >>]
    ELSE IF \E k \in 1..Len(svc.segs) : "text" \notin DOMAIN svc.segs[k]
    THEN [raised |-> FALSE, ret |-> None, svc |-> <<id.ret.str>>,
          out |-> id.out \o << <<"Error getting transcript: ", "'text'">> >>]
    ELSE [raised |-> FALSE, ret |-> Str(Join(Texts(svc.segs), " ")),
          svc |-> <<id.ret.str>>, out |-> id.out]

\* The body of get_video_transcript (lines 45-54), which runs on a cache miss.
get_video_transcript_body(self, svc) == FetchTranscript(get_video_id(self), svc)

(***************************************************************************)
(* functools.lru_cache(maxsize=100), keyed by the instance                 *)
(***************************************************************************)
maxsize == 100

\* A variant of CacheGet that never finds an entry (no memoization).
CacheGet_AlwaysMiss(c, key) == 0

\* The index of key's entry in the cache, 0 on a miss.
CacheGet(c, key) ==
    IF \E k \in 1..Len(c) : c[k].key = key
    THEN CHOOSE k \in 1..Len(c) : c[k].key = key
    ELSE 0

\* A variant of CacheTouch that leaves the entry where it is (first in, first out).
CacheTouch_NoMove(c, k) == c

\* A hit moves the entry to the most recently used end.
CacheTouch(c, k) == SubSeq(c, 1, k - 1) \o SubSeq(c, k + 1, Len(c)) \o <<c[k]>>

\* A variant of CachePut that does not store a None result.
CachePut_SkipNone(c, key, val) ==
    IF val = None THEN c
    ELSE (IF Len(c) >= maxsize THEN Tail(c) ELSE c) \o <<[key |-> key, val |-> val]>>

\* A miss stores the result (None included); a full cache drops its least
\* recently used entry first.
CachePut(c, key, val) ==
    (IF Len(c) >= maxsize THEN Tail(c) ELSE c) \o <<[key |-> key, val |-> val]>>

\* A cache hit at index k: the stored result, and nothing runs.
CacheHit(c, k) ==
    [raised |-> FALSE, ret |-> c[k].val, out |-> <<>>, svc |-> <<>>,
     cache |-> CacheTouch(c, k)]

\* A cache miss: r is what the body did; its result is stored unless an
\* exception left the body.
CacheMiss(c, key, r) ==
    [raised |-> r.raised, ret |-> r.ret, out |-> r.out, svc |-> r.svc,
     cache |-> IF r.raised THEN c ELSE CachePut(c, key, r.ret)]

\* get_video_transcript as decorated by lru_cache
get_video_transcript(c, key, self, svc) ==
    IF CacheGet(c, key) # 0
    THEN CacheHit(c, CacheGet(c, key))
    ELSE CacheMiss(c, key, get_video_transcript_body(self, svc))

(***************************************************************************)
(* summarize                                                               *)
(***************************************************************************)
SystemPrompt ==
    <<"You are a helpful assistant that summarizes YouTube videos from a transcript. ",
      "Mention the title of the video and the name of the speaker. ",
      "Also use bullet points wherever possible to make the summary more readable.">>

\* A variant of ChatRequest that always asks the default model.
ChatRequest_DefaultModel(self, transcript) ==
    [model |-> DefaultModel,
     messages |-> <<[role |-> "system", content |-> SystemPrompt],
                    [role |-> "user",
                     content |-> <<"Here is the transcript:\n ">> \o transcript.str]>>]

\* The chat request of lines 63-74.
ChatRequest(self, transcript) ==
    [model |-> self.model,
     messages |-> <<[role |-> "system", content |-> SystemPrompt],
                    [role |-> "user",
                     content |-> <<"Here is the transcript:\n ">> \o transcript.str]>>]

\* A variant of SummarizeTranscript that gives up on None only, not on ''.
SummarizeTranscript_NoneOnly(self, t, chat) ==
    IF t.raised
    THEN [raised |-> TRUE, ret |-> None, out |-> t.out, svc |-> t.svc,
          chat |-> <<>>, cache |-> t.cache, transcript |-> t.ret]
    ELSE IF ~IsStr(t.ret)
    THEN [raised |-> FALSE, ret |-> None, out |-> t.out, svc |-> t.svc,
          chat |-> <<>>, cache |-> t.cache, transcript |-> t.ret]
    ELSE IF chat.kind # "return" \/ "message" \notin DOMAIN chat.resp
    THEN [raised |-> FALSE, ret |-> None, svc |-> t.svc, cache |-> t.cache,
          transcript |-> t.ret, chat |-> <<ChatRequest(self, t.ret)>>,
          out |-> t.out \o << <<"Error generating summary: ", "error">> >>]
    ELSE [raised |-> FALSE, ret |-> chat.resp.message.content, svc |-> t.svc,
          cache |-> t.cache, transcript |-> t.ret,
          chat |-> <<ChatRequest(self, t.ret)>>, out |-> t.out]

\* Lines 59-78 of summarize: t is what get_video_transcript did, chat how the
\* chat service behaves if it is called.
SummarizeTranscript(self, t, chat) ==
    IF t.raised
    THEN [raised |-> TRUE, ret |-> None, out |-> t.out, svc |-> t.svc,
          chat |-> <<>>, cache |-> t.cache,
          transcript |-> t.ret]
    ELSE IF ~Truthy(t.ret)
    THEN [raised |-> FALSE, ret |-> None, out |-> t.out, svc |-> t.svc,
          chat |-> <<>>, cache |-> t.cache,
          transcript |-> t.ret]
    ELSE IF chat.kind = "raise"
    THEN [raised |-> FALSE, ret |-> None, svc |-> t.svc, cache |-> t.cache,
          transcript |-> t.ret, chat |-> <<ChatRequest(self, t.ret)>>,
          out |-> t.out \o << <<"Error generating summary: ", chat.msg>> >>]
    ELSE IF "message" \notin DOMAIN chat.resp
    THEN [raised |-> FALSE, ret |-> None, svc |-> t.svc, cache |-> t.cache,
          transcript |-> t.ret, chat |-> <<ChatRequest(self, t.ret)>>,
          out |-> t.out \o << <<"Error generating summary: ", "no attribute 'message'">> >>]
    ELSE [raised |-> FALSE, ret |-> chat.resp.message.content, svc |-> t.svc,
          cache |-> t.cache, transcript |-> t.ret,
          chat |-> <<ChatRequest(self, t.ret)>>,
          out |-> t.out]

\* summarize
summarize(c, key, self, svc, chat) ==
    SummarizeTranscript(self, get_video_transcript(c, key, self, svc), chat)

(***************************************************************************)
(* The state machine: one action per operation of the class                *)
(***************************************************************************)
\* The record of an operation: its name, the instance (0: none), whether an
\* exception left it, what it returned, what it printed, the transcript
\* service calls (video ids) and chat requests it made, and how the two
\* services behaved when called.
Effect(op, i, r, svcCalled, chatCalled, svc, chat) ==
    [op |-> op, inst |-> i, raised |-> r.raised,
     ret |-> r.ret, out |-> r.out, svc |-> svcCalled, chat |-> chatCalled,
     svcIn |-> IF svcCalled = <<>> THEN NoCall ELSE svc,
     chatIn |-> IF chatCalled = <<>> THEN NoCall ELSE chat]

NotFetched == [fetched |-> FALSE]

\* i moved to the most recent end of the fetch order
Refetched(order, i) == SelectSeq(order, LAMBDA j : j # i) \o <<i>>

Keys(c) == {c[k].key : k \in 1..Len(c)}

\* The history of a get_video_transcript call on instance i that did r and
\* returned transcript.
Fetched(i, r, transcript) ==
    /\ svcCalls' = [svcCalls EXCEPT ![i] = @ + Len(r.svc)]
    /\ firstRet' = IF firstRet[i] = NotFetched /\ ~r.raised
                   THEN [firstRet EXCEPT ![i] = [fetched |-> TRUE, ret |-> transcript]]
                   ELSE firstRet
    /\ fetchOrder' = IF r.raised THEN fetchOrder ELSE Refetched(fetchOrder, i)
    /\ evicted' = evicted \cup (Keys(cache) \ Keys(r.cache))

\* The state after YtSummarizer(url, model) did r: a new object, or ValueError
\* and no object.
Constructed(r) ==
    /\ last' = [op |-> "__init__",
                inst |-> IF r.raised THEN 0 ELSE Len(inst) + 1,
                raised |-> r.raised, ret |-> None, out |-> <<>>, svc |-> <<>>,
                chat |-> <<>>, svcIn |-> NoCall, chatIn |-> NoCall]
    /\ IF r.raised
       THEN UNCHANGED <<inst, svcCalls, firstRet>>
       ELSE /\ inst' = Append(inst, r.val)
            /\ svcCalls' = Append(svcCalls, 0)
            /\ firstRet' = Append(firstRet, NotFetched)
    /\ UNCHANGED <<cache, fetchOrder, evicted>>

\* YtSummarizer(url, model)
Construct(url, model) == Constructed(YtSummarizer(url, model))

\* The state after an operation on instance i that did r.
Done(i, r, transcript, effect) ==
    /\ last' = effect
    /\ cache' = r.cache
    /\ Fetched(i, r, transcript)
    /\ UNCHANGED inst

\* inst[i].get_video_id()
GetVideoId(i) ==
    /\ last' = Effect("get_video_id", i, get_video_id(inst[i]), <<>>, <<>>, NoCall, NoCall)
    /\ UNCHANGED <<inst, cache, svcCalls, firstRet, fetchOrder, evicted>>

\* inst[i].get_video_transcript(), the transcript service behaving as svc
GetVideoTranscript(i, svc) ==
    LET Call(r) == Done(i, r, r.ret, Effect("get_video_transcript", i, r, r.svc, <<>>, svc, NoCall))
    IN Call(get_video_transcript(cache, i, inst[i], svc))

\* inst[i].summarize(), the two services behaving as svc and chat
Summarize(i, svc, chat) ==
    LET Call(r) == Done(i, r, r.transcript, Effect("summarize", i, r, r.svc, r.chat, svc, chat))
    IN Call(summarize(cache, i, inst[i], svc, chat))

\* Before any object is constructed.
Init ==
    /\ inst = <<>>
    /\ cache = <<>>
    /\ last = [op |-> "none", inst |-> 0, raised |-> FALSE, ret |-> None,
               out |-> <<>>, svc |-> <<>>, chat |-> <<>>, svcIn |-> NoCall,
               chatIn |-> NoCall]
    /\ svcCalls = <<>>
    /\ firstRet = <<>>
    /\ fetchOrder = <<>>
    /\ evicted = {}

(***************************************************************************)
(* The pipeline on a few objects                                           *)
(***************************************************************************)
MaxInst == 2

LongUrl == <<"https", ":", "//", "www.", "youtube.com", "/", "watch", "?", "v", "=", "ABC">>

ShortUrl == <<"https", ":", "//", "youtu.be", "/", "ABC">>

OtherUrl == <<"https", ":", "//", "example.com", "/", "watch", "?", "v", "=", "ABC">>

\* Both domains in the host and no path: the identifier is ''.
BothUrl == <<"https", ":", "//", "youtu.be", ".", "youtube.com">>

\* The (url, model) arguments the objects are constructed with.
Args == { <<LongUrl, NoModel>>, <<LongUrl, Model(<<"mistral">>)>>,
          <<ShortUrl, NoModel>>, <<OtherUrl, NoModel>>, <<BothUrl, NoModel>>,
          << <<>>, NoModel>> }

\* The behaviours of the transcript service that matter to a call on
\* instance i: none on a cache hit or without an identifier.
SvcFor(i) ==
    IF CacheGet(cache, i) # 0 \/ ~Truthy(get_video_id(inst[i]).ret)
    THEN {NoCall} ELSE SvcOutcomes

\* The behaviours of the chat service that matter to summarize on a
\* transcript: none when it is None or ''.
ChatFor(transcript) == IF Truthy(transcript) THEN ChatOutcomes ELSE {NoCall}

Next ==
    \/ /\ Len(inst) < MaxInst
       /\ \E a \in Args : Construct(a[1], a[2])
    \/ \E i \in 1..Len(inst) : GetVideoId(i)
    \/ \E i \in 1..Len(inst) : \E svc \in SvcFor(i) : GetVideoTranscript(i, svc)
    \/ \E i \in 1..Len(inst) : \E svc \in SvcFor(i) :
         \E chat \in ChatFor(get_video_transcript(cache, i, inst[i], svc).ret) :
           Summarize(i, svc, chat)

Spec == Init /\ [][Next]_vars

(***************************************************************************)
(* get_video_id on its own, over URLs built from their parts               *)
(***************************************************************************)
MaxFields == 2

Schemes == { <<"https", ":", "//">>, <<>> }

Netlocs == { <<>>, <<"youtube.com">>, <<"www.", "youtube.com">>, <<"youtu.be">>,
             <<"www.", "youtu.be">>, <<"example.com">>, <<"[", "youtube.com">>,
             <<"youtu.be", ".", "youtube.com">> }

Paths == { <<>>, <<"/", "watch">>, <<"/", "ABC">> }

\* The fields of a query string: v=ABC, v=XYZ, v= (blank), v (no "="),
\* list=ABC, v=ABC+XYZ, %76=XYZ and the empty field.
Fields == { <<"v", "=", "ABC">>, <<"v", "=", "XYZ">>, <<"v", "=">>, <<"v">>,
            <<"list", "=", "ABC">>, <<"v", "=", "ABC", "+", "XYZ">>,
            <<"%76", "=", "XYZ">>, <<>> }

Queries ==
    {<<>>} \cup { <<"?">> \o Join(fs, "&") :
                    fs \in UNION { [1..k -> Fields] : k \in 0..MaxFields } }

Fragments == { <<>>, <<"#", "?", "v", "=", "XYZ">> }

AllUrls ==
    { s \o n \o p \o q \o f :
        s \in Schemes, n \in Netlocs, p \in Paths, q \in Queries, f \in Fragments }
    \ {<<>>}

\* One object, constructed with any of the URLs and the default model.
InitId ==
    /\ \E url \in AllUrls : inst = <<YtSummarizer(url, NoModel).val>>
    /\ cache = <<>>
    /\ last = [op |-> "__init__", inst |-> 1, raised |-> FALSE, ret |-> None,
               out |-> <<>>, svc |-> <<>>, chat |-> <<>>, svcIn |-> NoCall,
               chatIn |-> NoCall]
    /\ svcCalls = <<0>>
    /\ firstRet = <<NotFetched>>
    /\ fetchOrder = <<>>
    /\ evicted = {}

NextId == GetVideoId(1)

SpecId == InitId /\ [][NextId]_vars

\* The URL of the instance the last operation ran on, parsed.
LastUrl == urlparse(inst[last.inst].url)

\* get_video_id has run and its URL has a host (it parses).
IdExtracted == last.op = "get_video_id" /\ ~LastUrl.raised

LongForm == <<"youtube.com">>

ShortLink == <<"youtu.be">>

RECURSIVE FirstV(_)
\* The first non-blank value given to a parameter named v in the query string
\* q, decoded, scanning the fields left to right; None when there is none.
FirstV(q) ==
    LET amp == Find(q, "&")
        f == IF amp = 0 THEN q ELSE SubSeq(q, 1, amp - 1)
        eq == Find(f, "=")
    IN IF eq > 0 /\ eq < Len(f) /\ Unquote(SubSeq(f, 1, eq - 1)) = <<"v">>
       THEN Str(Unquote(From(f, eq + 1)))
       ELSE IF amp = 0 THEN None ELSE FirstV(From(q, amp + 1))

RECURSIVE FirstRawV(_)
\* The value of the first field of q named v, blank or not, decoded; None
\* when no field is named v.
FirstRawV(q) ==
    LET amp == Find(q, "&")
        f == IF amp = 0 THEN q ELSE SubSeq(q, 1, amp - 1)
        eq == Find(f, "=")
        name == IF eq = 0 THEN f ELSE SubSeq(f, 1, eq - 1)
    IN IF Unquote(name) = <<"v">>
       THEN Str(IF eq = 0 THEN <<>> ELSE Unquote(From(f, eq + 1)))
       ELSE IF amp = 0 THEN None ELSE FirstRawV(From(q, amp + 1))

\* C1: for a short-link URL (the host is youtu.be, the path is not empty)
\* get_video_id returns the path without its leading "/".
C1_ShortLinkId ==
    (IdExtracted /\ LastUrl.netloc = ShortLink /\ LastUrl.path # <<>>)
        => last.ret = Str(Tail(LastUrl.path))

\* C2 as stated: when the host contains youtube.com and some parameter named v
\* has a non-empty value, get_video_id returns the first value of v and prints
\* nothing.
C2_FirstValueOfV ==
    (IdExtracted /\ Contains(LastUrl.netloc, LongForm) /\ FirstV(LastUrl.query) # None)
        => (last.ret = FirstRawV(LastUrl.query) /\ last.out = <<>>)

\* C2 amended: when the host contains youtube.com and some parameter named v
\* has a non-empty value, get_video_id returns the first non-blank value of v,
\* decoded, prints nothing and does not raise.
C2_FirstNonBlankV ==
    (IdExtracted /\ Contains(LastUrl.netloc, LongForm) /\ FirstV(LastUrl.query) # None)
        => (last.ret = FirstV(LastUrl.query) /\ last.out = <<>> /\ ~last.raised)

\* v is given twice with different values and the first one was returned.
C2_Witness ==
    /\ IdExtracted
    /\ Contains(LastUrl.netloc, LongForm)
    /\ LastUrl.query = <<"v", "=", "ABC", "&", "v", "=", "XYZ">>
    /\ last.ret = Str(<<"ABC">>)

\* C3: when the host does not contain youtube.com, get_video_id returns None,
\* prints one diagnostic and does not raise, whatever the query holds.
C3_OtherHostAbsent ==
    (IdExtracted /\ ~Contains(LastUrl.netloc, LongForm))
        => /\ last.ret = None
           /\ Len(last.out) = 1
           /\ last.out[1][1] = "Error extracting video ID: "
           /\ ~last.raised

\* An unrelated host with a v parameter: None and a diagnostic.
C3_Witness ==
    /\ IdExtracted
    /\ LastUrl.netloc = <<"example.com">>
    /\ FirstV(LastUrl.query) # None
    /\ last.ret = None
    /\ last.out # <<>>

(***************************************************************************)
(* The pipeline claims                                                     *)
(***************************************************************************)
\* The identifier get_video_id extracts for instance i.
IdOf(i) == get_video_id(inst[i]).ret

\* The result the cache holds for instance i (i has an entry).
Cached(i) == cache[CacheGet(cache, i)].val

\* C4: while an instance's entry has not been evicted, and its identifier is
\* extractable, the transcript service has been called exactly once for it
\* however many times it was fetched, and every fetch returned what the first
\* fetch returned.
C4_OneServiceCall ==
    /\ \A i \in 1..Len(inst) :
         (firstRet[i] # NotFetched /\ i \notin evicted /\ Truthy(IdOf(i)))
             => svcCalls[i] = 1
    /\ (last.op = "get_video_transcript" /\ last.inst \notin evicted)
             => last.ret = firstRet[last.inst].ret

\* A fetch that was a cache hit: the service answered once, before, and the
\* stored transcript came back.
C4_Witness ==
    /\ last.op = "get_video_transcript"
    /\ last.svc = <<>>
    /\ svcCalls[last.inst] = 1
    /\ last.ret = Str(<<"Hello", " ", "world">>)

EmptyResponse == [kind |-> "return", segs |-> <<>>]

\* C5 as stated: when the transcript service returns no segments, or raises,
\* get_video_transcript returns None and does not raise.
C5_EmptyOrErrorIsNone ==
    (last.op = "get_video_transcript"
        /\ (last.svcIn = EmptyResponse \/ last.svcIn.kind = "raise"))
        => (last.ret = None /\ ~last.raised)

\* C5 amended: when the transcript service raises, get_video_transcript
\* returns None; when it returns no segments, get_video_transcript returns the
\* empty string; it raises in neither case.
C5_ErrorIsNoneEmptyIsBlank ==
    last.op = "get_video_transcript"
        => /\ last.svcIn.kind = "raise" => (last.ret = None /\ ~last.raised)
           /\ last.svcIn = EmptyResponse => (last.ret = Str(<<>>) /\ ~last.raised)

\* The service raised on a fetch, which returned None and printed the error.
C5_Witness ==
    /\ last.op = "get_video_transcript"
    /\ last.svcIn.kind = "raise"
    /\ last.ret = None
    /\ last.out = << <<"Error getting transcript: ", "TranscriptsDisabled">> >>

\* C6: an empty URL makes the constructor raise, with no object built and no
\* external call; no other operation lets an exception out: after every step
\* get_video_id, get_video_transcript and summarize have returned None or a
\* string, whatever the URL and whatever the two services do.
C6_OnlyConstructionRaises ==
    [][/\ \A a \in Args :
            (Construct(a[1], a[2]) /\ a[1] = <<>>)
                => (last'.raised /\ inst' = inst /\ cache' = cache)
       /\ \A i \in 1..Len(inst') : inst'[i].url # <<>>
       /\ last'.raised
            => (last'.op = "__init__" /\ last'.inst = 0 /\ last'.svc = <<>>
                  /\ last'.chat = <<>>)
       /\ last'.op \in {"get_video_id", "get_video_transcript", "summarize"}
            => (~last'.raised /\ (last'.ret = None \/ IsStr(last'.ret)))]_vars

\* A construction with an empty URL raised and built nothing, after a fetch
\* on the one object had absorbed a failure and returned None.
C6_Witness ==
    /\ last.op = "__init__"
    /\ last.raised
    /\ Len(inst) = 1
    /\ firstRet[1] = [fetched |-> TRUE, ret |-> None]
    /\ svcCalls[1] = 1

\* C7: summarize on a non-empty transcript T sends one chat request, to the
\* instance's model, with two messages: the fixed system message, then the
\* user message "Here is the transcript:\n " followed by T; when the chat
\* service answers with a message, its content is what summarize returns.
C7_ChatRequest ==
    (last.op = "summarize" /\ Truthy(Cached(last.inst)))
        => /\ Len(last.chat) = 1
           /\ last.chat[1].model = inst[last.inst].model
           /\ Len(last.chat[1].messages) = 2
           /\ last.chat[1].messages[1].role = "system"
           /\ last.chat[1].messages[1].content =
                <<"You are a helpful assistant that summarizes YouTube videos from a transcript. ",
                  "Mention the title of the video and the name of the speaker. ",
                  "Also use bullet points wherever possible to make the summary more readable.">>
           /\ last.chat[1].messages[2].role = "user"
           /\ last.chat[1].messages[2].content =
                <<"Here is the transcript:\n ">> \o Cached(last.inst).str
           /\ (last.chatIn.kind = "return" /\ "message" \in DOMAIN last.chatIn.resp)
                => last.ret = last.chatIn.resp.message.content

\* "Hello world" was summarized by the default model and by another one.
C7_Witness ==
    /\ last.op = "summarize"
    /\ last.ret = Str(<<"Summary">>)
    /\ Len(last.chat) = 1
    /\ last.chat[1].messages[2].content =
         <<"Here is the transcript:\n ", "Hello", " ", "world">>
    /\ last.chat[1].model = <<"llama3.2">>
    /\ inst[last.inst].model = <<"llama3.2">>

\* C8: the transcript service is called only with a non-empty identifier that
\* get_video_id extracted, the chat service only by summarize and only when the
\* instance's transcript (fresh or cached) is a non-empty string, which the
\* request carries; get_video_id calls neither.
C8_CallsInPipelineOrder ==
    /\ last.svc # <<>>
         => /\ last.op \in {"get_video_transcript", "summarize"}
            /\ Truthy(IdOf(last.inst))
            /\ last.svc = <<IdOf(last.inst).str>>
    /\ last.chat # <<>>
         => /\ last.op = "summarize"
            /\ CacheGet(cache, last.inst) # 0
            /\ Truthy(Cached(last.inst))
            /\ firstRet[last.inst] # NotFetched
            /\ Len(last.chat) = 1
    /\ (last.op = "summarize" /\ ~Truthy(IdOf(last.inst))) => last.svc = <<>>
    /\ (last.op = "summarize" /\ CacheGet(cache, last.inst) # 0
          /\ ~Truthy(Cached(last.inst))) => last.chat = <<>>

\* summarize stopped after an empty transcript: the transcript service was
\* called, the chat service was not.
C8_Witness ==
    /\ last.op = "summarize"
    /\ last.svc # <<>>
    /\ last.svcIn = EmptyResponse
    /\ last.chat = <<>>
    /\ last.ret = None

\* C10: once get_video_transcript has returned None for an instance, and until
\* its entry is evicted, get_video_transcript and summarize on it return None,
\* call no service and print nothing, whatever the transcript service would
\* now answer.
C10_AbsentIsMemoized ==
    [][\A i \in 1..Len(inst) :
         (/\ last'.op \in {"get_video_transcript", "summarize"}
          /\ last'.inst = i
          /\ firstRet[i] = [fetched |-> TRUE, ret |-> None]
          /\ i \notin evicted)
             => (/\ last'.ret = None
                 /\ last'.svc = <<>>
                 /\ last'.chat = <<>>
                 /\ last'.out = <<>>
                 /\ ~last'.raised
                 /\ svcCalls' = svcCalls)]_vars

\* summarize on an instance whose fetch failed before: None, silently, the one
\* service call being the earlier one.
C10_Witness ==
    /\ last.op = "summarize"
    /\ last.ret = None
    /\ last.out = <<>>
    /\ last.svc = <<>>
    /\ firstRet[last.inst] = [fetched |-> TRUE, ret |-> None]
    /\ svcCalls[last.inst] = 1

(***************************************************************************)
(* The cache over many objects                                             *)
(***************************************************************************)
MaxInstLru == 102

HelloWorld == [kind |-> "return", segs |-> <<[text |-> <<"Hello">>], [text |-> <<"world">>]>>]

\* The behaviours of the transcript service for a call on instance i: any
\* for the first object, a transcript for the others.
SvcLru(i) ==
    IF CacheGet(cache, i) # 0 THEN {NoCall}
    ELSE IF i = 1 THEN SvcOutcomes ELSE {HelloWorld}

\* Objects are constructed one after the other, each fetched before the next
\* is made; the first one and the newest one are fetched again at any time.
NextLru ==
    \/ /\ Len(inst) < MaxInstLru
       /\ \A i \in 1..Len(inst) : firstRet[i] # NotFetched
       /\ Construct(LongUrl, NoModel)
    \/ \E i \in {1, Len(inst)} \cap (1..Len(inst)) :
         \E svc \in SvcLru(i) : GetVideoTranscript(i, svc)

SpecLru == Init /\ [][NextLru]_vars

\* The instances fetched, not counting those after whose last fetch 100 or
\* more other instances were fetched; least recently fetched first. (The fetch
\* order holds every fetched instance once, at the place of its last fetch.)
RecentlyFetched(order) ==
    IF Len(order) <= 100 THEN order ELSE SubSeq(order, Len(order) - 99, Len(order))

\* Instance i was fetched, and fewer than 100 other instances since.
Recent(order, i) ==
    \E k \in 1..Len(order) : order[k] = i /\ Len(order) - k < 100

====
